---- MODULE Spec2Model ----
(***************************************************************************)
(* Form-intake backend of easyway-backend.  The repository holds two       *)
(* variants of the same Express server:                                    *)
(*   "smtp"   : src/server.js         (nodemailer, transporter.sendMail)   *)
(*   "resend" : src/unnamed/part_000  (Resend HTTP API, resend.emails.send)*)
(* A behaviour fixes one deployed variant and then handles requests.  A    *)
(* request passes the global cors() middleware, then the POST handler,     *)
(* which suspends once on the outbound mail call.                          *)
(*                                                                         *)
(* Strings are sequences of characters.  Text that comes from a template   *)
(* literal or a replacement string of the source is kept as one            *)
(* multi-character element, so a one-character element "<" or ">" in an    *)
(* outgoing body is always a character the client typed.                   *)
(***************************************************************************)
EXTENDS Integers, Sequences, FiniteSets, TLC

VARIABLES
  variant,         \* which server file is deployed: "smtp" | "resend"
  env,             \* the runtime the file runs on: Express major, NODE_ENV
  allowedOrigins,  \* module-level allow-list array
  transporter,     \* module-level mail client (transporter / resend)
  pc,              \* per request: position in the middleware chain
  req,             \* per request: method, Origin header, parsed body
  res,             \* per request: the HTTP response written so far
  calls,           \* per request: arguments of every Notifier call made
  outcome,         \* per request: how its own Notifier call ended
  handlerRan       \* per request: the POST handler was entered

vars == <<variant, env, allowedOrigins, transporter, pc, req, res, calls,
          outcome, handlerRan>>

(* ------------------------------ bounds -------------------------------- *)
MaxMsgLen == 2     \* longest generated message over MsgAlphabet
NumReq == 2        \* concurrently handled requests in SpecConc

(* --------------------------- JavaScript values ------------------------ *)
Undef == [t |-> "undefined", s |-> <<>>]
Str(s) == [t |-> "string", s |-> s]
Num(s) == [t |-> "number", s |-> s]

\* a presence test that lets the empty string through
TruthyDefinedOnly(v) == v.t # "undefined"

\* JS truthiness of a parsed body value
Truthy(v) ==
  \/ v.t = "string" /\ v.s # <<>>
  \/ v.t = "number" /\ v.s # <<"0">>

\* String(v) and `${v}`
String(v) == IF v.t = "undefined" THEN <<"undefined">> ELSE v.s

\* a || "dflt"
OrElse(v, dflt) == IF Truthy(v) THEN v ELSE Str(<<dflt>>)

RECURSIVE replaceAll(_, _, _)
\* s.replaceAll(c, rep) and s.replace(/c/g, rep) for a one-character c
replaceAll(s, c, rep) ==
  IF s = <<>> THEN <<>>
  ELSE (IF Head(s) = c THEN rep ELSE <<Head(s)>>) \o replaceAll(Tail(s), c, rep)

Amp == <<"&", "a", "m", "p", ";">>
Lt == <<"&", "l", "t", ";">>
Gt == <<"&", "g", "t", ";">>
Br == <<"<br/>">>

\* part_000: function escapeHtml(str = "")
escapeHtml(v) ==
  LET str == IF v.t = "undefined" THEN <<>> ELSE String(v)
  IN replaceAll(replaceAll(replaceAll(str, "&", Amp), "<", Lt), ">", Gt)

(* ------------------------------ responses ----------------------------- *)
Absent == "(absent)"
Null == "(null)"
NoRes == [n |-> 0, status |-> 0, success |-> FALSE, error |-> Absent,
          id |-> Absent, acao |-> Absent]

\* res.status(code).json({success, error, id}) on top of the headers set so far
Json(prev, code, ok, err, ident) ==
  [n |-> prev.n + 1, status |-> code, success |-> ok, error |-> err,
   id |-> ident, acao |-> prev.acao]

NoOutcome == [kind |-> "none", id |-> Absent, message |-> Absent]
EmptyBody == [name |-> Undef, email |-> Undef, phone |-> Undef,
              loanType |-> Undef, message |-> Undef, sourcePage |-> Undef]

(* ------------------------------ CORS ---------------------------------- *)
NoOrigin == ""     \* request without an Origin header

SmtpAllowedOrigins ==
  {"http://localhost:5173", "http://127.0.0.1:5173",
   "https://darkblue-fly-926171.hostingersite.com"}

ResendAllowedOrigins ==
  {"http://localhost:5173", "http://127.0.0.1:5173",
   "https://pink-goldfish-475332.hostingersite.com",
   "https://easywayloan.in", "https://www.easywayloan.in"}

\* an origin callback that lets every origin through
SmtpOriginCallbackAny(origin) == origin = NoOrigin \/ origin # NoOrigin

\* server.js: origin callback of cors({...}); TRUE is cb(null, true)
SmtpOriginCallback(origin) == origin = NoOrigin \/ origin \in allowedOrigins

\* part_000: origin callback of cors({...}); TRUE is callback(null, true)
ResendOriginCallback(origin) ==
  IF origin = NoOrigin THEN TRUE
  ELSE IF origin \in allowedOrigins THEN TRUE
  ELSE FALSE

OriginCallback(origin) ==
  IF variant = "smtp" THEN SmtpOriginCallback(origin)
  ELSE ResendOriginCallback(origin)

\* Body that Express's final error handler writes for an error passed to
\* next(err): the stack outside production, the status text in production.
DefaultErrorBody(stack) ==
  IF env.production THEN "Internal Server Error" ELSE stack

\* app.use(cors({origin: callback, ...})): runs first for every request.
\* A refused origin goes to next(err), which skips every route; a preflight
\* is answered by the middleware itself (preflightContinue is off), so the
\* later app.options("/api/send-form", cors()) route never sees a request.
CorsMiddleware(r) ==
  /\ pc[r] = "cors"
  /\ LET origin == req[r].origin
         reflect == IF origin = NoOrigin THEN Absent ELSE origin
     IN IF ~OriginCallback(origin)
        THEN /\ res' = [res EXCEPT ![r] =
                  Json(@, 500, FALSE, DefaultErrorBody("Error: CORS stack"), Absent)]
             /\ pc' = [pc EXCEPT ![r] = "done"]
        ELSE IF req[r].method = "OPTIONS"
        THEN /\ res' = [res EXCEPT ![r] =
                  [n |-> 1, status |-> 204, success |-> FALSE, error |-> Absent,
                   id |-> Absent, acao |-> reflect]]
             /\ pc' = [pc EXCEPT ![r] = "done"]
        ELSE /\ res' = [res EXCEPT ![r].acao = reflect]
             /\ pc' = [pc EXCEPT ![r] = "route"]
  /\ UNCHANGED <<variant, env, allowedOrigins, transporter, req, calls,
                 outcome, handlerRan>>

(* ------------------------------ Notifier ------------------------------ *)
\* what the awaited mail call can resolve with: a message identifier, or a
\* result that carries none
TransportIds == {"id-123", Absent}
\* err.message of a rejected mail call
TransportErrors == {"Invalid login: 535 bad credentials", "connect ECONNREFUSED"}

(* --------------------- server.js: POST /api/send-form ----------------- *)
\* the same chain without its final else: the initial value survives
SmtpSubjectLineNoElse(b) ==
  IF b.sourcePage = Str(<<"Application Form">>)
    THEN <<"New Loan Application from ">> \o String(b.name)
  ELSE IF b.sourcePage = Str(<<"Contact Form">>)
    THEN <<"New Contact Request from ">> \o String(b.name)
  ELSE IF b.sourcePage = Str(<<"Home Contact">>)
    THEN <<"New Enquiry from ">> \o String(b.name)
  ELSE <<"New Submission Received">>

\* server.js: let subjectLine = "New Submission Received"; if ... else ...
SmtpSubjectLine(b) ==
  IF b.sourcePage = Str(<<"Application Form">>)
    THEN <<"New Loan Application from ">> \o String(b.name)
  ELSE IF b.sourcePage = Str(<<"Contact Form">>)
    THEN <<"New Contact Request from ">> \o String(b.name)
  ELSE IF b.sourcePage = Str(<<"Home Contact">>)
    THEN <<"New Enquiry from ">> \o String(b.name)
  ELSE <<"New Enquiry from ">> \o String(b.name)

\* server.js: mailOptions; html and text are the template literals, one
\* element per literal chunk and per ${...} interpolation, in order
SmtpMailOptions(b) ==
  [replyTo |-> b.email,
   subject |-> SmtpSubjectLine(b),
   text |-> << <<"\nName: ">>, String(b.name),
               <<"\nEmail: ">>, String(b.email),
               <<"\nPhone: ">>, String(b.phone),
               <<"\nLoan Type: ">>, String(b.loanType),
               <<"\nMessage: ">>, String(b.message),
               <<"\nSource Page: ">>, String(b.sourcePage), <<"\n(end)">> >>,
   html |-> << <<"\n<h2>">>, SmtpSubjectLine(b),
               <<"</h2>\n<p><strong>Name:</strong> ">>, String(b.name),
               <<"</p>\n<p><strong>Email:</strong> ">>, String(b.email),
               <<"</p>\n<p><strong>Phone:</strong> ">>, String(b.phone),
               <<"</p>\n<p><strong>Loan Type:</strong> ">>,
               String(OrElse(b.loanType, "-")),
               <<"</p>\n<p><strong>Message:</strong><br/>">>,
               replaceAll(String(OrElse(b.message, "-")), "\n", Br),
               <<"</p>\n<hr/>\n<p>Submitted from page: <strong>">>,
               String(OrElse(b.sourcePage, "Unknown")),
               <<"</strong></p>\n">> >>]

\* An exception that leaves the async handler of server.js: nothing in the
\* file answers the request.  Express 4 drops the rejected promise and the
\* request stays open; Express 5 passes it to the final error handler.
SmtpUncaught(r) ==
  IF env.express = 4
  THEN /\ pc' = [pc EXCEPT ![r] = "hung"]
       /\ UNCHANGED res
  ELSE /\ pc' = [pc EXCEPT ![r] = "done"]
       /\ res' = [res EXCEPT ![r] =
             Json(@, 500, FALSE, DefaultErrorBody("TypeError stack"), Absent)]

\* server.js lines 63-110: everything up to `await transporter.sendMail`
SmtpSendForm(r) ==
  /\ variant = "smtp"
  /\ pc[r] = "route"
  /\ handlerRan' = [handlerRan EXCEPT ![r] = TRUE]
  /\ LET b == req[r].body
     IN IF ~req[r].hasBody
        THEN \* destructuring undefined throws
             SmtpUncaught(r) /\ UNCHANGED calls
        ELSE IF ~Truthy(b.name) \/ ~Truthy(b.email) \/ ~Truthy(b.phone)
        THEN /\ res' = [res EXCEPT ![r] =
                  Json(@, 400, FALSE, "Missing required fields", Absent)]
             /\ pc' = [pc EXCEPT ![r] = "done"]
             /\ UNCHANGED calls
        ELSE IF Truthy(b.message) /\ b.message.t # "string"
        THEN \* (message || "-").replace is not a function
             SmtpUncaught(r) /\ UNCHANGED calls
        ELSE /\ calls' = [calls EXCEPT ![r] = Append(@, SmtpMailOptions(b))]
             /\ pc' = [pc EXCEPT ![r] = "awaiting"]
             /\ UNCHANGED res
  /\ UNCHANGED <<variant, env, allowedOrigins, transporter, req, outcome>>

\* server.js lines 110-112: sendMail resolved with info
SmtpSendMailResolved(r) ==
  /\ variant = "smtp"
  /\ pc[r] = "awaiting"
  /\ \E ident \in TransportIds :
       outcome' = [outcome EXCEPT ![r] =
                     [kind |-> "resolved", id |-> ident, message |-> Absent]]
  /\ res' = [res EXCEPT ![r] = Json(@, 200, TRUE, Absent, Absent)]
  /\ pc' = [pc EXCEPT ![r] = "done"]
  /\ UNCHANGED <<variant, env, allowedOrigins, transporter, req, calls,
                 handlerRan>>

\* server.js lines 113-116: sendMail rejected with err
SmtpSendMailRejected(r) ==
  /\ variant = "smtp"
  /\ pc[r] = "awaiting"
  /\ \E msg \in TransportErrors :
       /\ outcome' = [outcome EXCEPT ![r] =
                        [kind |-> "rejected", id |-> Absent, message |-> msg]]
       /\ res' = [res EXCEPT ![r] = Json(@, 500, FALSE, msg, Absent)]
  /\ pc' = [pc EXCEPT ![r] = "done"]
  /\ UNCHANGED <<variant, env, allowedOrigins, transporter, req, calls,
                 handlerRan>>

(* --------------------- part_000: POST /api/send-form ------------------ *)
\* part_000: switch (sourcePage) { ... default: ... }
ResendSubjectLine(b) ==
  CASE b.sourcePage = Str(<<"Application Form">>)
         -> <<"New Loan Application from ">> \o String(b.name)
    [] b.sourcePage = Str(<<"Contact Form">>)
         -> <<"New Contact Request from ">> \o String(b.name)
    [] b.sourcePage = Str(<<"Home Contact">>)
         -> <<"New Enquiry from ">> \o String(b.name)
    [] OTHER -> <<"New Enquiry from ">> \o String(b.name)

safeName(b) == escapeHtml(b.name)
safeEmail(b) == escapeHtml(b.email)
safePhone(b) == escapeHtml(OrElse(b.phone, "-"))
safeLoanType(b) == escapeHtml(OrElse(b.loanType, "-"))
safeMessage(b) == replaceAll(escapeHtml(b.message), "\n", Br)
safeSource(b) == escapeHtml(OrElse(b.sourcePage, "Website"))

\* part_000: the object passed to resend.emails.send; no text part is sent
ResendMailOptions(b) ==
  [replyTo |-> Str(safeEmail(b)),
   subject |-> ResendSubjectLine(b),
   text |-> <<>>,
   html |-> << <<"\n<h2>Easy Way Loan - New Submission</h2>\n<p><strong>Name:</strong> ">>,
               safeName(b),
               <<"</p>\n<p><strong>Email:</strong> ">>, safeEmail(b),
               <<"</p>\n<p><strong>Phone:</strong> ">>, safePhone(b),
               <<"</p>\n<p><strong>Loan Type:</strong> ">>, safeLoanType(b),
               <<"</p>\n<p><strong>Message:</strong></p>\n<div>">>, safeMessage(b),
               <<"</div>\n<p><small>Submitted from: ">>, safeSource(b),
               <<"</small></p>\n">> >>]

\* part_000 lines 97-146: everything up to `await resend.emails.send`,
\* all of it inside the try block
ResendSendForm(r) ==
  /\ variant = "resend"
  /\ pc[r] = "route"
  /\ handlerRan' = [handlerRan EXCEPT ![r] = TRUE]
  /\ LET b == IF req[r].hasBody THEN req[r].body ELSE EmptyBody
     IN IF ~Truthy(b.name) \/ ~Truthy(b.email) \/ ~Truthy(b.message)
        THEN /\ res' = [res EXCEPT ![r] =
                  Json(@, 400, FALSE,
                       "Missing required fields: name, email, message", Absent)]
             /\ pc' = [pc EXCEPT ![r] = "done"]
             /\ UNCHANGED calls
        ELSE /\ calls' = [calls EXCEPT ![r] = Append(@, ResendMailOptions(b))]
             /\ pc' = [pc EXCEPT ![r] = "awaiting"]
             /\ UNCHANGED res
  /\ UNCHANGED <<variant, env, allowedOrigins, transporter, req, outcome>>

\* part_000 lines 146-159: the send resolved with result
ResendSendResolved(r) ==
  /\ variant = "resend"
  /\ pc[r] = "awaiting"
  /\ \E ident \in TransportIds :
       /\ outcome' = [outcome EXCEPT ![r] =
                        [kind |-> "resolved", id |-> ident, message |-> Absent]]
       /\ res' = [res EXCEPT ![r] =
             Json(@, 200, TRUE, Absent, IF ident = Absent THEN Null ELSE ident)]
  /\ pc' = [pc EXCEPT ![r] = "done"]
  /\ UNCHANGED <<variant, env, allowedOrigins, transporter, req, calls,
                 handlerRan>>

\* a catch block that also tears down the shared client
ResendSendRejectedClosing(r) ==
  /\ variant = "resend"
  /\ pc[r] = "awaiting"
  /\ \E msg \in TransportErrors :
       outcome' = [outcome EXCEPT ![r] =
                     [kind |-> "rejected", id |-> Absent, message |-> msg]]
  /\ res' = [res EXCEPT ![r] = Json(@, 500, FALSE, "Server error", Absent)]
  /\ pc' = [pc EXCEPT ![r] = "done"]
  /\ transporter' = "closed"
  /\ UNCHANGED <<variant, env, allowedOrigins, req, calls, handlerRan>>

\* part_000 lines 160-164: catch (err)
ResendSendRejected(r) ==
  /\ variant = "resend"
  /\ pc[r] = "awaiting"
  /\ \E msg \in TransportErrors :
       outcome' = [outcome EXCEPT ![r] =
                     [kind |-> "rejected", id |-> Absent, message |-> msg]]
  /\ res' = [res EXCEPT ![r] = Json(@, 500, FALSE, "Server error", Absent)]
  /\ pc' = [pc EXCEPT ![r] = "done"]
  /\ UNCHANGED <<variant, env, allowedOrigins, transporter, req, calls,
                 handlerRan>>

(* ------------------------------ requests ------------------------------ *)
RECURSIVE SeqsUpTo(_, _)
SeqsUpTo(A, n) ==
  IF n = 0 THEN {<<>>}
  ELSE LET shorter == SeqsUpTo(A, n - 1)
       IN shorter \cup {Append(s, a) : s \in shorter, a \in A}

MsgAlphabet == {"a", "<", "\n"}
ScriptTag == <<"<", "s", "c", "r", "i", "p", "t", ">">>
BrTag == <<"<", "b", "r", "/", ">">>

Origins == {NoOrigin, "http://localhost:5173", "https://evil.example"}
Names == {Undef, Str(<<>>), Str(<<"A">>), Str(<<"A", "<">>)}
Emails == {Undef, Str(<<>>), Str(<<"a", "@", "x">>), Str(<<"a", "&", "b", "@", "x">>)}
Phones == {Undef, Str(<<>>), Str(<<"9">>)}
LoanTypes == {Undef, Str(<<"<", "i", ">">>)}
SourcePages == {Undef, Str(<<"Application Form">>), Str(<<"Contact Form">>),
                Str(<<"Home Contact">>), Str(<<"Other", "<">>)}
Messages ==
  {Undef, Num(<<"5">>), Str(ScriptTag), Str(BrTag),
   Str(<<"a", "&", "\n", "b", ">">>)}
  \cup {Str(s) : s \in SeqsUpTo(MsgAlphabet, MaxMsgLen)}

Bodies ==
  [name : Names, email : Emails, phone : Phones, loanType : LoanTypes,
   message : Messages, sourcePage : SourcePages]

SmallBodies ==
  {[EmptyBody EXCEPT !.name = Str(<<"A">>), !.email = Str(<<"a", "@", "x">>),
                     !.phone = Str(<<"9">>), !.message = m] :
     m \in {Undef, Num(<<"5">>), Str(<<"<", "\n">>)}}

\* app.use(express.json()) / express.urlencoded(): what req.body is when
\* the request carried nothing the parsers read.  Express 4 leaves {} there,
\* Express 5 leaves it undefined.
Unparsed == [hasBody |-> env.express = 4, body |-> EmptyBody]

\* A request reaches the server: method, Origin header and the body the
\* body parsers produced
Arrive(r, origins, bodies) ==
  /\ pc[r] = "idle"
  /\ \E o \in origins :
       \/ req' = [req EXCEPT ![r] = [method |-> "OPTIONS", origin |-> o] @@ Unparsed]
       \/ req' = [req EXCEPT ![r] = [method |-> "POST", origin |-> o] @@ Unparsed]
       \/ \E b \in bodies :
            req' = [req EXCEPT ![r] = [method |-> "POST", origin |-> o,
                                       hasBody |-> TRUE, body |-> b]]
  /\ pc' = [pc EXCEPT ![r] = "cors"]
  /\ UNCHANGED <<variant, env, allowedOrigins, transporter, res, calls,
                 outcome, handlerRan>>

Handle(r) ==
  \/ CorsMiddleware(r)
  \/ SmtpSendForm(r)
  \/ SmtpSendMailResolved(r)
  \/ SmtpSendMailRejected(r)
  \/ ResendSendForm(r)
  \/ ResendSendResolved(r)
  \/ ResendSendRejected(r)

InitFor(reqs) ==
  /\ variant \in {"smtp", "resend"}
  /\ env \in [express : {4, 5}, production : BOOLEAN]
  /\ allowedOrigins =
       IF variant = "smtp" THEN SmtpAllowedOrigins ELSE ResendAllowedOrigins
  /\ transporter = IF variant = "smtp" THEN "nodemailer" ELSE "resend"
  /\ pc = [r \in reqs |-> "idle"]
  /\ req = [r \in reqs |-> [method |-> "POST", origin |-> NoOrigin,
                            hasBody |-> FALSE, body |-> EmptyBody]]
  /\ res = [r \in reqs |-> NoRes]
  /\ calls = [r \in reqs |-> <<>>]
  /\ outcome = [r \in reqs |-> NoOutcome]
  /\ handlerRan = [r \in reqs |-> FALSE]

\* one request at a time, over the full input space
Init == InitFor({1})
Next == \E r \in DOMAIN pc : Arrive(r, Origins, Bodies) \/ Handle(r)
Spec == Init /\ [][Next]_vars

\* NumReq requests in flight together, over a small input space
InitConc == InitFor(1..NumReq)
NextConc ==
  \E r \in DOMAIN pc :
    Arrive(r, {NoOrigin, "https://evil.example"}, SmallBodies) \/ Handle(r)
SpecConc == InitConc /\ [][NextConc]_vars

(* ------------------------ vocabulary of the claims -------------------- *)
Reqs == DOMAIN pc

\* a field that is missing or empty
Missing(v) == v.t = "undefined" \/ (v.t = "string" /\ v.s = <<>>)

\* the required-field policy of the deployed variant
Required == IF variant = "smtp" THEN {"name", "email", "phone"}
            ELSE {"name", "email", "message"}

MissingRequired(r) ==
  req[r].hasBody /\ \E f \in Required : Missing(req[r].body[f])

\* every field of the submission is a string or absent, as the data model says
WellTyped(b) ==
  \A f \in DOMAIN b : b[f].t \in {"undefined", "string"}

ValidSubmission(r) ==
  /\ req[r].hasBody
  /\ WellTyped(req[r].body)
  /\ \A f \in Required : ~Missing(req[r].body[f])

MissingFieldMessages ==
  {"Missing required fields", "Missing required fields: name, email, message"}
GenericMessages == {"Server error", "Failed to send email", "Internal Server Error"}

RECURSIVE Count(_, _)
\* occurrences of the element c in s
Count(s, c) ==
  IF s = <<>> THEN 0 ELSE (IF Head(s) = c THEN 1 ELSE 0) + Count(Tail(s), c)

RECURSIVE CountRun(_, _)
\* occurrences of the run pat in s
CountRun(s, pat) ==
  IF Len(s) < Len(pat) THEN 0
  ELSE (IF SubSeq(s, 1, Len(pat)) = pat THEN 1 ELSE 0) + CountRun(Tail(s), pat)

\* <br/> elements of a rendered fragment: the ones the handler inserted and
\* the ones spelled out character by character
LineBreaks(s) == Count(s, "<br/>") + CountRun(s, BrTag)

\* the chunk of the html template that holds the message
MessagePart(call) == IF variant = "smtp" THEN call.html[12] ELSE call.html[10]
\* the chunk of the text template that holds the message
MessageText(call) == call.text[10]

(* ------------------------------- claims ------------------------------- *)
\* C1: a submission with a required field missing or empty is answered 400,
\* success=false, with the fixed "Missing required fields..." message, and
\* the Notifier is not invoked for it.
C1_MissingFieldRejected ==
  \A r \in Reqs :
    MissingRequired(r) =>
      /\ calls[r] = <<>>
      /\ outcome[r].kind = "none"
      /\ handlerRan[r] =>
           /\ pc[r] = "done"
           /\ res[r].n = 1
           /\ res[r].status = 400
           /\ res[r].success = FALSE
           /\ res[r].error \in MissingFieldMessages

C1_Witness ==
  \E r \in Reqs :
    /\ handlerRan[r] /\ MissingRequired(r)
    /\ req[r].body.name = Str(<<"A">>) /\ req[r].body.email = Str(<<>>)
    /\ res[r].status = 400

\* C2: a valid submission gets exactly one Notifier call, with replyTo equal
\* to the email as submitted, and is answered only after that call ended.
C2_OneCallReplyTo ==
  \A r \in Reqs :
    ValidSubmission(r) =>
      /\ Len(calls[r]) <= 1
      /\ \A i \in 1..Len(calls[r]) : calls[r][i].replyTo = req[r].body.email
      /\ handlerRan[r] => Len(calls[r]) = 1
      /\ (handlerRan[r] /\ res[r].n > 0) => outcome[r].kind # "none"

\* C3: a failed Notifier call is answered 500 with exactly
\* {success:false, error:"Server error"}.
C3_TransportFailureOpaque ==
  \A r \in Reqs :
    outcome[r].kind = "rejected" =>
      /\ res[r].n = 1
      /\ res[r].status = 500
      /\ res[r].success = FALSE
      /\ res[r].error = "Server error"
      /\ res[r].id = Absent

\* C4: no raw < or > typed by the client reaches the HTML handed to the
\* Notifier.
C4_HtmlEscaped ==
  \A r \in Reqs :
    \A i \in 1..Len(calls[r]) :
      \A p \in 1..Len(calls[r][i].html) :
        \A j \in 1..Len(calls[r][i].html[p]) :
          calls[r][i].html[p][j] \notin {"<", ">"}

\* C5: a request that entered the handler and ended without a Notifier
\* result was answered exactly once, with 400 or with a generic 500.
C5_FaultsAnswered ==
  \A r \in Reqs :
    (handlerRan[r] /\ outcome[r].kind = "none" /\ pc[r] # "awaiting") =>
      /\ pc[r] = "done"
      /\ res[r].n = 1
      /\ \/ res[r].status = 400
         \/ res[r].status = 500 /\ res[r].error \in GenericMessages

\* the subject the mapping table gives
SubjectPrefix(sourcePage) ==
  CASE sourcePage = Str(<<"Application Form">>) -> "New Loan Application from "
    [] sourcePage = Str(<<"Contact Form">>) -> "New Contact Request from "
    [] OTHER -> "New Enquiry from "

\* C6: the subject handed to the Notifier is the table's prefix for
\* sourcePage followed by the name, and never "New Submission Received".
C6_SubjectMapping ==
  \A r \in Reqs :
    \A i \in 1..Len(calls[r]) :
      /\ calls[r][i].subject =
           <<SubjectPrefix(req[r].body.sourcePage)>> \o String(req[r].body.name)
      /\ Head(calls[r][i].subject) # "New Submission Received"

C6_Witness ==
  \E r \in Reqs :
    /\ variant = "smtp"
    /\ Len(calls[r]) = 1
    /\ req[r].body.sourcePage = Undef
    /\ calls[r][1].subject = <<"New Enquiry from ", "A">>

\* C7: an origin off the allow-list is refused by CORS and never reaches the
\* handler; no Origin and an allow-listed Origin are let through; a
\* preflight is answered by the same list.
C7_CorsAllowList ==
  \A r \in Reqs :
    pc[r] \notin {"idle", "cors"} =>
      LET o == req[r].origin
          onList == o \in allowedOrigins
      IN /\ (o # NoOrigin /\ ~onList) =>
              /\ ~handlerRan[r]
              /\ calls[r] = <<>>
              /\ pc[r] = "done"
              /\ res[r].status = 500
              /\ res[r].acao = Absent
         /\ (o = NoOrigin \/ onList) =>
              /\ req[r].method = "POST" => (pc[r] = "route" \/ handlerRan[r])
              /\ req[r].method = "OPTIONS" => res[r].status = 204
         /\ res[r].acao # Absent => res[r].acao \in allowedOrigins

C7_Witness ==
  \E r \in Reqs :
    /\ variant = "smtp"
    /\ req[r].origin = "https://evil.example"
    /\ req[r].method = "POST" /\ req[r].hasBody
    /\ pc[r] = "done" /\ res[r].status = 500

\* C8: a successful send is answered 200 {success:true, id}, id being the
\* transport's identifier when it returned one, null or absent otherwise.
C8_SuccessCarriesId ==
  \A r \in Reqs :
    outcome[r].kind = "resolved" =>
      /\ res[r].n = 1
      /\ res[r].status = 200
      /\ res[r].success = TRUE
      /\ outcome[r].id # Absent => res[r].id = outcome[r].id
      /\ outcome[r].id = Absent => res[r].id \in {Null, Absent}

\* C9: a message with n newlines is rendered with exactly n <br/> elements
\* in the message section, and the text part keeps the message as typed.
C9_NewlinesToBreaks ==
  \A r \in Reqs :
    ValidSubmission(r) =>
      \A i \in 1..Len(calls[r]) :
        /\ LineBreaks(MessagePart(calls[r][i])) =
             Count(String(req[r].body.message), "\n")
        /\ calls[r][i].text # <<>> =>
             MessageText(calls[r][i]) = String(req[r].body.message)

\* two requests at the same point with the same input and the same result of
\* their own Notifier call have the same Notifier arguments and response
SameInSameOut ==
  \A r1, r2 \in Reqs :
    (pc[r1] = pc[r2] /\ req[r1] = req[r2] /\ outcome[r1] = outcome[r2]) =>
      (res[r1] = res[r2] /\ calls[r1] = calls[r2])

\* a step touches one request only and leaves the shared objects alone
OneRequestStep ==
  /\ allowedOrigins' = allowedOrigins
  /\ transporter' = transporter
  /\ \E r \in Reqs :
       \A q \in Reqs \ {r} :
         /\ pc'[q] = pc[q] /\ req'[q] = req[q] /\ res'[q] = res[q]
         /\ calls'[q] = calls[q] /\ outcome'[q] = outcome[q]
         /\ handlerRan'[q] = handlerRan[q]

====
